---- MODULE Spec2Model ----
(***************************************************************************)
(* The AsyncAPI document model of fastmq/asyncapi/models.py.               *)
(*                                                                         *)
(* The source declares pydantic (v1) BaseModel classes.  Each class is     *)
(* transcribed below as a table of its fields (name, external alias,       *)
(* required flag, declared type); the validation the classes inherit from  *)
(* BaseModel is the operator Validate, applied to raw JSON-like documents. *)
(*                                                                         *)
(* Values (raw and parsed) are tagged tuples <<kind, value>>, so x[1] is    *)
(* the kind of x and x[2] what it holds:                                   *)
(*   "null"  None                 "bool"  TRUE / FALSE                     *)
(*   "int"   an integer           "float" a number, held in tenths         *)
(*   "str"   a string             "list"  a sequence of values             *)
(*   "map"   a function from string keys to values                         *)
(*   "enum"  the identifier of an Enum member (parsed values only)         *)
(*   "model" an instance of a class, <<"model", fields, class>>: x[2] the  *)
(*           function from field names to values, x[3] the class name      *)
(*           (parsed values only)                                          *)
(*                                                                         *)
(* The validation rules are those of pydantic 1.x, the version the source  *)
(* is written against (__get_validators__, Field(..., alias=...)).  Every  *)
(* declaration is taken as a field of its class; that includes             *)
(* Parameter.schema, whose name is also that of a BaseModel method.        *)
(*                                                                         *)
(* Serialization is not part of models.py; Serialize follows the written   *)
(* specification of it (keys by alias, None fields left out, Enum members  *)
(* as their value).                                                        *)
(***************************************************************************)
EXTENDS Integers, Sequences, FiniteSets, TLC

VARIABLES
    emailValidator, \* whether `import email_validator` succeeded (lines 6-24)
    cls,            \* the class the document is parsed as
    raw,            \* the raw document handed to the class
    pc,             \* "raw" -> "parsed" -> "serialized"
    parsed,         \* the outcome of parsing: [val, errs]
    out             \* the re-serialized document

vars == <<emailValidator, cls, raw, pc, parsed, out>>

-----------------------------------------------------------------------------
(* Bounds of the model *)

\* Integers of raw documents range over -MaxInt .. MaxInt.
MaxInt == 2

-----------------------------------------------------------------------------
(* Values *)

None == <<"null", 0>>
B(b) == <<"bool", b>>
I(n) == <<"int", n>>
F(t) == <<"float", t>>
S(s) == <<"str", s>>
L(q) == <<"list", q>>
M(f) == <<"map", f>>
E(id) == <<"enum", id>>
Obj(c, f) == <<"model", f, c>>

\* the kind of a value; the keys of a mapping; d[key]; the class and the
\* fields of an instance
Kind(x) == x[1]
Keys(d) == DOMAIN d[2]
Get(d, key) == d[2][key]
ClassOf(x) == x[3]
Attr(x, name) == x[2][name]

\* dict.get(key): the value under key, or nothing
Has(d, key) == d[1] = "map" /\ key \in Keys(d)

-----------------------------------------------------------------------------
(* Python's conversions between scalars, as pydantic's validators call them *)

Digit(d) == <<"0", "1", "2", "3", "4", "5", "6", "7", "8", "9">>[d + 1]

RECURSIVE NatStr(_)
NatStr(n) == IF n < 10 THEN Digit(n) ELSE NatStr(n \div 10) \o Digit(n % 10)

\* str(n) for an int n
IntStr(n) == IF n < 0 THEN "-" \o NatStr(-n) ELSE NatStr(n)

\* str(x) for a float x held in tenths
FloatStr(t) ==
    IF t < 0 THEN "-" \o NatStr((-t) \div 10) \o "." \o Digit((-t) % 10)
    ELSE NatStr(t \div 10) \o "." \o Digit(t % 10)

\* int(x) for a float x: truncation toward zero
FloatInt(t) == IF t < 0 THEN -((-t) \div 10) ELSE t \div 10

\* The integers and floats a string can spell, within the bound
IntLiterals == (-MaxInt) .. MaxInt
FloatLiterals == (-(10 * MaxInt)) .. (10 * MaxInt)

\* int(s) succeeds on a string that spells an integer
IsIntStr(s) == \E n \in IntLiterals : IntStr(n) = s
StrInt(s) == CHOOSE n \in IntLiterals : IntStr(n) = s

\* float(s) succeeds on a string that spells an integer or a decimal
IsFloatStr(s) == IsIntStr(s) \/ \E t \in FloatLiterals : FloatStr(t) = s
StrFloat(s) ==
    IF IsIntStr(s) THEN 10 * StrInt(s)
    ELSE CHOOSE t \in FloatLiterals : FloatStr(t) = s

\* str.lower()
Lower(s) ==
    CASE s = "True" -> "true"
      [] s = "False" -> "false"
      [] OTHER -> s

-----------------------------------------------------------------------------
(* Declared types *)

TStr == [t |-> "str"]
TInt == [t |-> "int"]
TFloat == [t |-> "float"]
TBool == [t |-> "bool"]
TAny == [t |-> "any"]
TAnyUrl == [t |-> "AnyUrl"]
TEmailStr == [t |-> "EmailStr"]
TPlainDict == [t |-> "dict"]
TEnum(e) == [t |-> "enum", of |-> e]
TModel(c) == [t |-> "model", of |-> c]
TList(x) == [t |-> "List", of |-> x]
TDict(x) == [t |-> "Dict", of |-> x]
TUnion(a, b) == [t |-> "Union", of |-> <<a, b>>]

(* Field declarations.  `dflt` is what stands right of the `=`:            *)
(*   "undefined"  nothing          name: T                                 *)
(*   "None"       None             name: Optional[T] = None                *)
(*   "..."        Ellipsis         name: T = Field(..., alias=...)         *)
(* `optional` is whether the annotation is Optional[...]; `extra` holds    *)
(* the keyword arguments given to Field() other than the alias.           *)
Decl(name, optional, ty, dflt) ==
    [name |-> name, alias |-> name, optional |-> optional, type |-> ty,
     dflt |-> dflt, extra |-> {}]

\* name: T
Bare(name, ty) == Decl(name, FALSE, ty, "undefined")
\* name: Optional[T]
BareOpt(name, ty) == Decl(name, TRUE, ty, "undefined")
\* name: Optional[T] = None
Opt(name, ty) == Decl(name, TRUE, ty, "None")
\* Field(default, alias=a)
AliasDropped(f, a) == f
Alias(f, a) == [f EXCEPT !.alias = a]
\* Field(default, kw=n)
Kw(f, kw, n) == [f EXCEPT !.extra = @ \cup {<<kw, n>>}]

-----------------------------------------------------------------------------
(* The classes *)

ExternalDocumentation == <<
    Opt("description", TStr),
    Bare("url", TAnyUrl) >>

Contact == <<
    Opt("name", TStr),
    Opt("url", TAnyUrl),
    Opt("email", TEmailStr) >>

License == <<
    Bare("name", TStr),
    Opt("url", TAnyUrl) >>

Info == <<
    Bare("title", TStr),
    Opt("description", TStr),
    Opt("termsOfService", TStr),
    Opt("contact", TModel("Contact")),
    Opt("license", TModel("License")),
    Bare("version", TStr) >>

ServerVariable == <<
    Opt("enum", TList(TStr)),
    Bare("default", TStr),
    Opt("description", TStr) >>

\* <<member identifier, member value>>
ServerProtocol == <<
    <<"amqp", "amqp">>,
    <<"amqps", "amqps">>,
    <<"http", "http">>,
    <<"https", "https">>,
    <<"jms", "jms">>,
    <<"kafka", "kafka">>,
    <<"kafka_secure", "kafka-secure">>,
    <<"mqtt", "mqtt">>,
    <<"secure_mqtt", "secure-mqtt">>,
    <<"stomp", "stomp">>,
    <<"stomps", "stomps">>,
    <<"ws", "ws">>,
    <<"wss", "wss">> >>

Server == <<
    Bare("url", TUnion(TAnyUrl, TStr)),
    Opt("description", TStr),
    Opt("variables", TDict(TModel("ServerVariable"))),
    Bare("protocol", TEnum("ServerProtocol")),
    Bare("protocolVersion", TStr),
    Opt("security", TDict(TList(TStr))),
    Opt("bindings", TDict(TPlainDict)) >>

Reference == <<
    Alias(Decl("ref", FALSE, TStr, "..."), "$ref") >>

Discriminator == <<
    Bare("propertyName", TStr),
    Opt("mapping", TDict(TStr)) >>

SchemaBase == <<
    Alias(Opt("ref", TStr), "$ref"),
    Opt("title", TStr),
    Opt("multipleOf", TFloat),
    Opt("maximum", TFloat),
    Opt("exclusiveMaximum", TFloat),
    Opt("minimum", TFloat),
    Opt("exclusiveMinimum", TFloat),
    Kw(Opt("maxLength", TInt), "gte", 0),
    Kw(Opt("minLength", TInt), "gte", 0),
    Opt("pattern", TStr),
    Kw(Opt("maxItems", TInt), "gte", 0),
    Kw(Opt("minItems", TInt), "gte", 0),
    Opt("uniqueItems", TBool),
    Kw(Opt("maxProperties", TInt), "gte", 0),
    Kw(Opt("minProperties", TInt), "gte", 0),
    Opt("required", TList(TStr)),
    Opt("enum", TList(TAny)),
    Opt("type", TStr),
    Opt("allOf", TList(TAny)),
    Opt("oneOf", TList(TAny)),
    Opt("anyOf", TList(TAny)),
    Alias(Opt("not_", TAny), "not"),
    Opt("items", TAny),
    Opt("properties", TDict(TAny)),
    Opt("additionalProperties", TUnion(TDict(TAny), TBool)),
    Opt("description", TStr),
    Opt("format", TStr),
    Opt("default", TAny),
    Opt("nullable", TBool),
    Opt("discriminator", TModel("Discriminator")),
    Opt("readOnly", TBool),
    Opt("writeOnly", TBool),
    Opt("externalDocs", TModel("ExternalDocumentation")),
    Opt("example", TAny),
    Opt("deprecated", TBool) >>

\* class C(Base): a field declared again in C replaces the inherited one in
\* its place; a new field is appended.
Inherit(base, own) ==
    LET Redeclared(n) == \E j \in DOMAIN own : own[j].name = n
        Mine(n) == own[CHOOSE j \in DOMAIN own : own[j].name = n]
        New == SelectSeq(own, LAMBDA f : ~ \E i \in DOMAIN base : base[i].name = f.name)
    IN  [i \in DOMAIN base |->
            IF Redeclared(base[i].name) THEN Mine(base[i].name) ELSE base[i]] \o New

SchemaNotNarrowed == SchemaBase

Schema == Inherit(SchemaBase, <<
    Opt("allOf", TList(TModel("SchemaBase"))),
    Opt("oneOf", TList(TModel("SchemaBase"))),
    Opt("anyOf", TList(TModel("SchemaBase"))),
    Alias(Opt("not_", TModel("SchemaBase")), "not"),
    Opt("items", TModel("SchemaBase")),
    Opt("properties", TDict(TModel("SchemaBase"))),
    Opt("additionalProperties", TUnion(TDict(TAny), TBool)) >>)

Parameter == <<
    Opt("location", TStr),
    Opt("description", TStr),
    Opt("schema", TModel("Schema")) >>

Tag == << >>

Components == << >>

CorrelationID == <<
    Opt("description", TStr),
    Bare("location", TStr) >>

MessageBase == <<
    Opt("headers", TUnion(TModel("Schema"), TModel("Reference"))),
    Bare("payload", TAny),
    Opt("correlationId", TUnion(TModel("CorrelationID"), TModel("Reference"))),
    Opt("schemaFormat", TStr),
    Opt("contentType", TStr),
    Opt("name", TStr),
    Opt("title", TStr),
    Opt("summary", TStr),
    Opt("description", TStr),
    Opt("tags", TList(TModel("Tag"))),
    Opt("externalDocs", TModel("ExternalDocumentation")),
    Opt("bindings", TDict(TPlainDict)),
    Opt("examples", TDict(TAny)) >>

Message == Inherit(MessageBase, <<
    Opt("traits", TList(TModel("MessageBase"))) >>)

OperationTrait == <<
    Opt("operationId", TStr),
    Opt("summary", TStr),
    Opt("description", TStr),
    Opt("tags", TList(TModel("Tag"))),
    Opt("externalDocs", TModel("ExternalDocumentation")),
    Opt("bindings", TDict(TPlainDict)) >>

OperationBase == <<
    Opt("operationId", TStr),
    Opt("summary", TStr),
    Opt("description", TStr),
    Opt("tags", TList(TStr)),
    Opt("externalDocs", TModel("ExternalDocumentation")),
    Opt("bindings", TDict(TPlainDict)) >>

Operation == Inherit(OperationBase, <<
    Opt("traits", TModel("OperationBase")),
    Opt("message", TModel("Message")) >>)

ChannelItem == <<
    Alias(Opt("ref", TStr), "$ref"),
    Opt("description", TStr),
    Opt("subscribe", TModel("Operation")),
    Opt("publish", TModel("Operation")),
    Opt("parameters", TDict(TUnion(TModel("Parameter"), TModel("Reference")))),
    Opt("bindings", TDict(TPlainDict)) >>

AsyncAPI == <<
    Bare("asyncapi", TStr),
    BareOpt("id", TStr),
    Bare("info", TModel("Info")),
    Opt("servers", TList(TModel("Server"))),
    Bare("channels", TDict(TModel("ChannelItem"))),
    Opt("components", TModel("Components")),
    Opt("tags", TList(TModel("Tag"))),
    Opt("externalDocs", TModel("ExternalDocumentation")) >>

Classes == {
    "ExternalDocumentation", "Contact", "License", "Info", "ServerVariable",
    "Server", "Reference", "Discriminator", "SchemaBase", "Schema",
    "Parameter", "Tag", "Components", "CorrelationID", "MessageBase",
    "Message", "OperationTrait", "OperationBase", "Operation", "ChannelItem",
    "AsyncAPI" }

\* __fields__ of a class
Fields(c) ==
    CASE c = "ExternalDocumentation" -> ExternalDocumentation
      [] c = "Contact" -> Contact
      [] c = "License" -> License
      [] c = "Info" -> Info
      [] c = "ServerVariable" -> ServerVariable
      [] c = "Server" -> Server
      [] c = "Reference" -> Reference
      [] c = "Discriminator" -> Discriminator
      [] c = "SchemaBase" -> SchemaBase
      [] c = "Schema" -> Schema
      [] c = "Parameter" -> Parameter
      [] c = "Tag" -> Tag
      [] c = "Components" -> Components
      [] c = "CorrelationID" -> CorrelationID
      [] c = "MessageBase" -> MessageBase
      [] c = "Message" -> Message
      [] c = "OperationTrait" -> OperationTrait
      [] c = "OperationBase" -> OperationBase
      [] c = "Operation" -> Operation
      [] c = "ChannelItem" -> ChannelItem
      [] c = "AsyncAPI" -> AsyncAPI

FieldNames(c) == {Fields(c)[i].name : i \in DOMAIN Fields(c)}
FieldOf(c, n) == Fields(c)[CHOOSE i \in DOMAIN Fields(c) : Fields(c)[i].name = n]

-----------------------------------------------------------------------------
(* Validation outcomes: the value, and the errors as (location, kind)     *)
(* pairs.  A location is the path of external keys to the failing value;  *)
(* a list index is written as its decimal string.                          *)

Ok(v) == [val |-> v, errs |-> {}]
Fail(kind) == [val |-> None, errs |-> {[loc |-> <<>>, type |-> kind]}]
IsOk(r) == r.errs = {}

\* the errors of r, located under key
Under(key, r) == {[loc |-> <<key>> \o e.loc, type |-> e.type] : e \in r.errs}

-----------------------------------------------------------------------------
(* The validators pydantic attaches to the declared scalar types *)

\* repr(v), as str() writes the elements of a list and the items of a dict
\* (a dict of one item at most: its order of items is not kept here)
RECURSIVE PyRepr(_)
PyJoin(q) ==
    LET RECURSIVE Join(_)
        Join(i) == IF i > Len(q) THEN ""
                   ELSE IF i = Len(q) THEN PyRepr(q[i])
                   ELSE PyRepr(q[i]) \o ", " \o Join(i + 1)
    IN  Join(1)
PyRepr(v) ==
    CASE v[1] = "str" -> "'" \o v[2] \o "'"
      [] v[1] = "int" -> IntStr(v[2])
      [] v[1] = "float" -> FloatStr(v[2])
      [] v[1] = "bool" -> IF v[2] THEN "True" ELSE "False"
      [] v[1] = "null" -> "None"
      [] v[1] = "list" -> "[" \o PyJoin(v[2]) \o "]"
      [] v[1] = "map" /\ Keys(v) = {} -> "{}"
      [] v[1] = "map" /\ Cardinality(Keys(v)) = 1 ->
            LET key == CHOOSE a \in Keys(v) : TRUE
            IN  "{'" \o key \o "': " \o PyRepr(v[2][key]) \o "}"

\* str(v), as the fallback EmailStr.validate calls it (line 24)
PyStr(v) == IF v[1] = "str" THEN v[2] ELSE PyRepr(v)

\* (a strict string: no conversion)
str_strict(v) == IF v[1] = "str" THEN Ok(v) ELSE Fail("type_error.str")

\* name: str
str_validator(v) ==
    CASE v[1] = "str" -> Ok(v)
      [] v[1] \in {"int", "float", "bool"} -> Ok(S(PyStr(v)))
      [] OTHER -> Fail("type_error.str")

\* name: int
int_validator(v) ==
    CASE v[1] = "int" -> Ok(v)
      [] v[1] = "bool" -> Ok(I(IF v[2] THEN 1 ELSE 0))
      [] v[1] = "float" -> Ok(I(FloatInt(v[2])))
      [] v[1] = "str" /\ IsIntStr(v[2]) -> Ok(I(StrInt(v[2])))
      [] OTHER -> Fail("type_error.integer")

\* name: float
float_validator(v) ==
    CASE v[1] = "float" -> Ok(v)
      [] v[1] = "int" -> Ok(F(10 * v[2]))
      [] v[1] = "bool" -> Ok(F(IF v[2] THEN 10 ELSE 0))
      [] v[1] = "str" /\ IsFloatStr(v[2]) -> Ok(F(StrFloat(v[2])))
      [] OTHER -> Fail("type_error.float")

BOOL_TRUE == {"1", "on", "t", "true", "y", "yes"}
BOOL_FALSE == {"0", "off", "f", "false", "n", "no"}

\* name: bool
bool_validator(v) ==
    CASE v[1] = "bool" -> Ok(v)
      [] v[1] = "str" /\ Lower(v[2]) \in BOOL_TRUE -> Ok(B(TRUE))
      [] v[1] = "str" /\ Lower(v[2]) \in BOOL_FALSE -> Ok(B(FALSE))
      [] v[1] = "int" /\ v[2] = 1 -> Ok(B(TRUE))
      [] v[1] = "int" /\ v[2] = 0 -> Ok(B(FALSE))
      [] v[1] = "float" /\ v[2] = 10 -> Ok(B(TRUE))
      [] v[1] = "float" /\ v[2] = 0 -> Ok(B(FALSE))
      [] OTHER -> Fail("type_error.bool")

\* The strings of the documents that are URLs, and those that are e-mail
\* addresses.
Urls == {"amqp://broker", "https://example.com"}
Emails == {"dev@example.com"}

\* name: AnyUrl
url_validator(v) ==
    LET s == str_validator(v)
    IN  IF ~ IsOk(s) THEN s
        ELSE IF s.val[2] \in Urls THEN s
        ELSE Fail("value_error.url.scheme")

\* name: EmailStr.  pydantic's EmailStr when email_validator is installed;
\* otherwise the class of lines 13-24, whose validate returns str(v).
email_validator(v) ==
    IF emailValidator
    THEN LET s == str_validator(v)
         IN  IF ~ IsOk(s) THEN s
             ELSE IF s.val[2] \in Emails THEN s
             ELSE Fail("value_error.email")
    ELSE Ok(S(PyStr(v)))

\* (a lookup by member identifier instead of by value)
enum_by_name(members, v) ==
    IF v[1] = "str" /\ \E i \in DOMAIN members : members[i][1] = v[2]
    THEN Ok(E(v[2]))
    ELSE Fail("type_error.enum")

\* name: ServerProtocol.  Enum lookup is by value; the result is the member.
enum_validator(members, v) ==
    IF v[1] = "str" /\ \E i \in DOMAIN members : members[i][2] = v[2]
    THEN Ok(E(members[CHOOSE i \in DOMAIN members : members[i][2] = v[2]][1]))
    ELSE Fail("type_error.enum")

\* the value a member is written as
EnumValue(members, id) ==
    members[CHOOSE i \in DOMAIN members : members[i][1] = id][2]

Enums(e) == CASE e = "ServerProtocol" -> ServerProtocol

\* dict(v): a mapping as it is; an empty string or empty list turns into
\* the empty mapping; anything else is no mapping.  (Lists of pairs, which
\* dict() also accepts, do not occur in the documents.)
IsDictLike(v) ==
    \/ v[1] = "map"
    \/ v[1] = "list" /\ Len(v[2]) = 0
    \/ v[1] = "str" /\ v[2] = ""
AsDict(v) == IF v[1] = "map" THEN v ELSE M(<<>>)

\* name: dict
dict_validator(v) == IF IsDictLike(v) THEN Ok(AsDict(v)) ELSE Fail("type_error.dict")

-----------------------------------------------------------------------------
(* What pydantic derives from a field declaration *)

\* A field is required unless it has a default, is Optional[...] or is Any.
Required(f) ==
    CASE f.dflt = "..." -> TRUE
      [] f.dflt = "None" -> FALSE
      [] f.dflt = "undefined" -> ~ (f.optional \/ f.type.t = "any")

\* None is accepted for an Optional[...] or Any field, and for one whose
\* default is None.
AllowNone(f) == f.optional \/ f.type.t = "any" \/ f.dflt = "None"

\* The numeric constraints Field() knows; any other keyword is kept as
\* schema metadata and checks nothing.
ConstraintHolds(kw, n, x) ==
    CASE kw = "gt" -> x > n
      [] kw = "ge" -> x >= n
      [] kw = "lt" -> x < n
      [] kw = "le" -> x <= n
      [] OTHER -> TRUE

ConstraintKind(kw) == "value_error.number.not_" \o kw

\* the constraint errors of a validated number
Constrained(f, r) ==
    IF ~ IsOk(r) \/ r.val[1] \notin {"int", "float"} THEN r
    ELSE LET x == r.val[2]
             n(c) == IF r.val[1] = "float" THEN 10 * c[2] ELSE c[2]
             bad == {c \in f.extra : ~ ConstraintHolds(c[1], n(c), x)}
         IN  IF bad = {} THEN r
             ELSE [val |-> None,
                   errs |-> {[loc |-> <<>>, type |-> ConstraintKind(c[1])] : c \in bad}]

-----------------------------------------------------------------------------
(* Validation of a value against a declared type *)

RECURSIVE ValidateType(_, _), ValidateModel(_, _)

\* List[X]: each element against X, errors located by index
ValidateList(x, v) ==
    IF v[1] # "list" THEN Fail("type_error.list")
    ELSE LET r == [i \in DOMAIN v[2] |-> ValidateType(x, v[2][i])]
             errs == UNION {Under(IntStr(i - 1), r[i]) : i \in DOMAIN v[2]}
         IN  IF errs = {} THEN Ok(L([i \in DOMAIN v[2] |-> r[i].val]))
             ELSE [val |-> None, errs |-> errs]

\* Dict[str, X]: each value against X, errors located by key
ValidateDict(x, v) ==
    IF ~ IsDictLike(v) THEN Fail("type_error.dict")
    ELSE LET d == AsDict(v)
             r == [key \in Keys(d) |-> ValidateType(x, d[2][key])]
             errs == UNION {Under(key, r[key]) : key \in Keys(d)}
         IN  IF errs = {} THEN Ok(M([key \in Keys(d) |-> r[key].val]))
             ELSE [val |-> None, errs |-> errs]

\* Union[A, B]: the members in declaration order, the first that validates
\* wins; when none does, the errors of all of them.
ValidateUnion(a, b, v) ==
    LET ra == ValidateType(a, v)
    IN  IF IsOk(ra) THEN ra
        ELSE LET rb == ValidateType(b, v)
             IN  IF IsOk(rb) THEN rb
                 ELSE [val |-> None, errs |-> ra.errs \cup rb.errs]

ValidateType(ty, v) ==
    IF v[1] = "null"
    THEN IF ty.t = "any" THEN Ok(v) ELSE Fail("type_error.none.not_allowed")
    ELSE CASE ty.t = "any" -> Ok(v)
           [] ty.t = "str" -> str_validator(v)
           [] ty.t = "int" -> int_validator(v)
           [] ty.t = "float" -> float_validator(v)
           [] ty.t = "bool" -> bool_validator(v)
           [] ty.t = "AnyUrl" -> url_validator(v)
           [] ty.t = "EmailStr" -> email_validator(v)
           [] ty.t = "dict" -> dict_validator(v)
           [] ty.t = "enum" -> enum_validator(Enums(ty.of), v)
           [] ty.t = "model" -> ValidateModel(ty.of, v)
           [] ty.t = "List" -> ValidateList(ty.of, v)
           [] ty.t = "Dict" -> ValidateDict(ty.of, v)
           [] ty.t = "Union" -> ValidateUnion(ty.of[1], ty.of[2], v)

\* One field of a class against the raw mapping d: looked up by its alias;
\* a missing key is an error if the field is required and None otherwise.
ValidateField(f, d) ==
    IF ~ Has(d, f.alias)
    THEN IF Required(f) THEN Fail("value_error.missing") ELSE Ok(None)
    ELSE IF d[2][f.alias][1] = "null"
    THEN IF AllowNone(f) THEN Ok(None) ELSE Fail("type_error.none.not_allowed")
    ELSE Constrained(f, ValidateType(f.type, d[2][f.alias]))

\* No class declares a Config, so BaseModel's default applies: keys that are
\* the alias of no field are ignored (dropped), not rejected.
ConfigExtraForbid == "forbid"
ConfigExtra == "ignore"

ExtraErrors(c, d) ==
    IF ConfigExtra = "forbid"
    THEN {[loc |-> <<key>>, type |-> "value_error.extra"] :
             key \in Keys(d) \ {Fields(c)[i].alias : i \in DOMAIN Fields(c)}}
    ELSE {}

\* BaseModel validation of a raw value as class c
ValidateModel(c, v) ==
    IF ~ IsDictLike(v) THEN Fail("type_error.dict")
    ELSE LET d == AsDict(v)
             fs == Fields(c)
             r == [i \in DOMAIN fs |-> ValidateField(fs[i], d)]
             errs == UNION {Under(fs[i].alias, r[i]) : i \in DOMAIN fs}
                     \cup ExtraErrors(c, d)
             At(n) == CHOOSE i \in DOMAIN fs : fs[i].name = n
         IN  IF errs = {} THEN Ok(Obj(c, [n \in FieldNames(c) |-> r[At(n)].val]))
             ELSE [val |-> None, errs |-> errs]

\* parse(raw): the class applied to a raw document
Parse(c, v) == ValidateModel(c, v)

-----------------------------------------------------------------------------
(* serialize(model): the document of a parsed value, keyed by alias, None  *)
(* fields left out, Enum members written as their value.                   *)

RECURSIVE Serialize(_)
Serialize(x) ==
    CASE x[1] = "model" ->
            LET fs == Fields(x[3])
                set == {i \in DOMAIN fs : x[2][fs[i].name][1] # "null"}
                At(a) == CHOOSE i \in set : fs[i].alias = a
            IN  M([a \in {fs[i].alias : i \in set} |-> Serialize(x[2][fs[At(a)].name])])
      [] x[1] = "enum" -> S(EnumValue(ServerProtocol, x[2]))
      [] x[1] = "list" -> L([i \in DOMAIN x[2] |-> Serialize(x[2][i])])
      [] x[1] = "map" -> M([key \in Keys(x) |-> Serialize(x[2][key])])
      [] OTHER -> x

-----------------------------------------------------------------------------
(* The raw documents the classes are applied to *)

\* {"$ref": s}
Ref(s) == M("$ref" :> S(s))

Pointers == {"#/components/schemas/Foo", "#/x", "ref", ""}

DocExternalDocumentation ==
    M([description |-> S("more"), url |-> S("https://example.com")])

DocContact ==
    M([name |-> S("dev"), url |-> S("https://example.com"),
       email |-> S("dev@example.com")])

DocLicense == M([name |-> S("MIT"), url |-> S("https://example.com")])

DocInfo ==
    M([title |-> S("X"), description |-> S("d"), termsOfService |-> S("tos"),
       contact |-> DocContact, license |-> DocLicense, version |-> S("1.0")])

DocServerVariable ==
    M([enum |-> L(<<S("a"), S("b")>>), default |-> S("a"), description |-> S("d")])

DocServer ==
    M([url |-> S("amqp://broker"), description |-> S("d"),
       variables |-> M([port |-> DocServerVariable]),
       protocol |-> S("amqp"), protocolVersion |-> S("0.9.1"),
       security |-> M([user |-> L(<<S("read")>>)]),
       bindings |-> M([amqp |-> M([x |-> I(1)])])])

DocReference == Ref("#/components/schemas/Foo")

DocDiscriminator ==
    M([propertyName |-> S("kind"), mapping |-> M([a |-> S("A")])])

\* the nested schema of the spec's example: an array of strings under "tags"
DocTags == M([type |-> S("array"), items |-> M([type |-> S("string")])])
DocProperties == M([name |-> M([type |-> S("string")]), tags |-> DocTags])

DocSchema ==
    M(("$ref" :> S("#/x")) @@ ("not" :> M([type |-> S("null")])) @@
      [title |-> S("T"), multipleOf |-> F(15), maximum |-> F(20),
       exclusiveMaximum |-> F(20), minimum |-> F(0), exclusiveMinimum |-> F(0),
       maxLength |-> I(2), minLength |-> I(0), pattern |-> S("x"),
       maxItems |-> I(2), minItems |-> I(0), uniqueItems |-> B(TRUE),
       maxProperties |-> I(2), minProperties |-> I(0),
       required |-> L(<<S("name")>>), enum |-> L(<<I(1), S("a")>>),
       type |-> S("object"),
       allOf |-> L(<<DocTags>>), oneOf |-> L(<<DocTags>>), anyOf |-> L(<<DocTags>>),
       items |-> DocTags, properties |-> DocProperties,
       additionalProperties |-> B(FALSE), description |-> S("d"),
       format |-> S("f"), default |-> I(0), nullable |-> B(FALSE),
       discriminator |-> DocDiscriminator, readOnly |-> B(FALSE),
       writeOnly |-> B(FALSE), externalDocs |-> DocExternalDocumentation,
       example |-> S("e"), deprecated |-> B(FALSE)])

DocParameter ==
    M([location |-> S("$message.payload#/id"), description |-> S("d"),
       schema |-> M([type |-> S("string")])])

DocTag == M([name |-> S("x")])

DocComponents == M([schemas |-> M([Foo |-> M([type |-> S("object")])])])

DocCorrelationID ==
    M([description |-> S("d"), location |-> S("$message.header#/id")])

DocMessageBase ==
    M([headers |-> M([type |-> S("object"), properties |-> DocProperties]),
       payload |-> M([type |-> S("object")]),
       correlationId |-> DocCorrelationID,
       schemaFormat |-> S("sf"), contentType |-> S("application/json"),
       name |-> S("n"), title |-> S("t"), summary |-> S("s"),
       description |-> S("d"), tags |-> L(<<M(<<>>)>>),
       externalDocs |-> DocExternalDocumentation,
       bindings |-> M([amqp |-> M(<<>>)]),
       examples |-> M([one |-> I(1)])])

DocTrait == M([payload |-> S("p"), name |-> S("trait")])

DocMessage == M(DocMessageBase[2] @@ [traits |-> L(<<DocTrait>>)])

DocOperationTrait ==
    M([operationId |-> S("op"), summary |-> S("s"), description |-> S("d"),
       tags |-> L(<<M(<<>>)>>), externalDocs |-> DocExternalDocumentation,
       bindings |-> M([amqp |-> M(<<>>)])])

DocOperationBase ==
    M([operationId |-> S("op"), summary |-> S("s"), description |-> S("d"),
       tags |-> L(<<S("t")>>), externalDocs |-> DocExternalDocumentation,
       bindings |-> M([amqp |-> M(<<>>)])])

DocOperation ==
    M(DocOperationBase[2] @@
      [traits |-> M([operationId |-> S("base")]), message |-> DocMessage])

\* a channel whose parameters are all inline
DocChannelItem ==
    M(("$ref" :> S("#/x")) @@
      [description |-> S("d"), subscribe |-> DocOperation,
       publish |-> M([message |-> M([payload |-> S("p")])]),
       parameters |-> M([id |-> DocParameter]),
       bindings |-> M([amqp |-> M(<<>>)])])

DocAsyncAPI ==
    M([asyncapi |-> S("2.0.0"), id |-> S("urn:x"), info |-> DocInfo,
       servers |-> L(<<DocServer>>),
       channels |-> M([signedup |-> DocChannelItem]),
       components |-> M(<<>>), tags |-> L(<<M(<<>>)>>),
       externalDocs |-> DocExternalDocumentation])

\* a document of each class with every declared field present and well typed
\* (Tag and Components declare none: theirs carry fields of the format)
Full(c) ==
    CASE c = "ExternalDocumentation" -> DocExternalDocumentation
      [] c = "Contact" -> DocContact
      [] c = "License" -> DocLicense
      [] c = "Info" -> DocInfo
      [] c = "ServerVariable" -> DocServerVariable
      [] c = "Server" -> DocServer
      [] c = "Reference" -> DocReference
      [] c = "Discriminator" -> DocDiscriminator
      [] c = "SchemaBase" -> DocSchema
      [] c = "Schema" -> DocSchema
      [] c = "Parameter" -> DocParameter
      [] c = "Tag" -> DocTag
      [] c = "Components" -> DocComponents
      [] c = "CorrelationID" -> DocCorrelationID
      [] c = "MessageBase" -> DocMessageBase
      [] c = "Message" -> DocMessage
      [] c = "OperationTrait" -> DocOperationTrait
      [] c = "OperationBase" -> DocOperationBase
      [] c = "Operation" -> DocOperation
      [] c = "ChannelItem" -> DocChannelItem
      [] c = "AsyncAPI" -> DocAsyncAPI

\* d without key / with key set to x / cut down to the keys ks
Drop(d, key) == M([a \in Keys(d) \ {key} |-> d[2][a]])
Put(d, key, x) == M([a \in Keys(d) \cup {key} |-> IF a = key THEN x ELSE d[2][a]])
Only(d, ks) == M([a \in Keys(d) \cap ks |-> d[2][a]])

\* the values tried in the place of a field's value
Probes ==
    {I(n) : n \in (-MaxInt) .. MaxInt}
    \cup {F(15), B(TRUE), B(FALSE), None, M(<<>>), L(<<>>), L(<<I(1)>>)}
    \cup {S(s) : s \in {"", "x", "2", "1.5", "true"}}
    \cup {Ref(s) : s \in Pointers}


\* strings tried as a Server's protocol: every member's value, every
\* member's identifier, and strings that are neither
ProtocolStrings ==
    {ServerProtocol[i][1] : i \in DOMAIN ServerProtocol}
    \cup {ServerProtocol[i][2] : i \in DOMAIN ServerProtocol}
    \cup {"carrier-pigeon", "AMQP", ""}

\* values tried where a record or a Reference is declared
Entries ==
    {Ref(s) : s \in Pointers}
    \cup {Put(Ref(s), "location", x) : s \in Pointers, x \in {S("l"), L(<<>>)}}
    \cup {Put(Ref(s), "minLength", x) : s \in Pointers, x \in {I(-1), S("x")}}
    \cup {DocParameter, DocCorrelationID, M(<<>>),
          M([minLength |-> I(-1)]), M([minLength |-> S("x")]),
          M([properties |-> M([a |-> M([items |-> M([minLength |-> S("x")])])])]),
          M([schema |-> M([minLength |-> I(-1)])]),
          M([location |-> L(<<>>)])}

\* a whole document around a message / around a channel's parameter entry
AroundMessage(m) ==
    Put(DocAsyncAPI, "channels", M([c |-> M([publish |-> M([message |-> m])])]))
AroundEntry(e) ==
    Put(DocAsyncAPI, "channels", M([c |-> M([parameters |-> M([id |-> e])])]))

Special(c) ==
    CASE c = "Reference" -> {M([ref |-> S(s)]) : s \in Pointers}
      [] c = "Schema" ->
            {M([not_ |-> DocTags]), M("not" :> DocTags), M([properties |-> DocProperties])}
      [] c = "Server" -> {Put(DocServer, "protocol", S(s)) : s \in ProtocolStrings}
      [] c = "Message" ->
            {Put(DocTrait, "headers", e) : e \in Entries}
            \cup {Put(DocTrait, "correlationId", e) : e \in Entries}
      [] c = "ChannelItem" -> {M([parameters |-> M([id |-> e])]) : e \in Entries}
      [] c = "AsyncAPI" ->
            {AroundMessage(Put(DocTrait, "headers", e)) : e \in Entries}
            \cup {AroundMessage(Put(DocTrait, "correlationId", e)) : e \in Entries}
            \cup {AroundEntry(e) : e \in Entries}
            \cup {M([asyncapi |-> S("2.0.0"),
                     info |-> M([title |-> S("X"), version |-> S("1.0")]),
                     channels |-> M(<<>>)])}
      [] OTHER -> {}

\* the documents of class c: the full one; it with one key left out, with
\* one key's value replaced, cut down to one key, with an undeclared key
\* added; and the special ones
Docs(c) ==
    LET d == Full(c)
    IN  {d}
        \cup {Drop(d, key) : key \in Keys(d)}
        \cup {Put(d, key, x) : key \in Keys(d), x \in Probes}
        \cup {Only(d, {key}) : key \in Keys(d)}
        \cup {Put(Only(d, {}), key, x) : key \in Keys(d), x \in Probes}
        \cup {Put(d, "x-extra", S("x"))}
        \cup Special(c)

-----------------------------------------------------------------------------
(* The state machine: a class and a raw document are chosen, the document  *)
(* is parsed, and a parsed document is serialized.                         *)

Init ==
    /\ emailValidator \in BOOLEAN
    /\ cls \in Classes
    /\ raw \in Docs(cls)
    /\ pc = "raw"
    /\ parsed = Ok(None)
    /\ out = None

\* cls.parse_obj(raw)
ParseObj ==
    /\ pc = "raw"
    /\ parsed' = Parse(cls, raw)
    /\ pc' = "parsed"
    /\ UNCHANGED <<emailValidator, cls, raw, out>>

\* serialize the parsed tree; a failed parse has none
SerializeObj ==
    /\ pc = "parsed"
    /\ IsOk(parsed)
    /\ out' = Serialize(parsed.val)
    /\ pc' = "serialized"
    /\ UNCHANGED <<emailValidator, cls, raw, parsed>>

Next == ParseObj \/ SerializeObj

Spec == Init /\ [][Next]_vars

-----------------------------------------------------------------------------
(* Properties *)

Parsed == pc # "raw"
Serialized == pc = "serialized"
ErrAt(path) == \E e \in parsed.errs : e.loc = path

\* C2 -- Numeric bound rejection: a Schema in which maxLength, minLength,
\* maxItems, minItems, maxProperties or minProperties is a negative integer
\* fails to parse; with 0 or a positive integer there the field is accepted.
BoundFields ==
    {"maxLength", "minLength", "maxItems", "minItems", "maxProperties", "minProperties"}
C2_NumericBoundRejection ==
    (Parsed /\ cls = "Schema") =>
        \A b \in BoundFields :
            (Has(raw, b) /\ Kind(Get(raw, b)) = "int") =>
                /\ Get(raw, b)[2] < 0 => ~ IsOk(parsed)
                /\ Get(raw, b)[2] >= 0 => ~ ErrAt(<<b>>)

\* C6 -- Mandatory field enforcement: leaving one field out of a full
\* document makes the parse fail exactly when the data model designates the
\* field mandatory; the document holding only asyncapi, info {title,
\* version} and channels {} parses.
Mandatory(c) ==
    CASE c = "AsyncAPI" -> {"asyncapi", "info", "channels"}
      [] c = "Info" -> {"title", "version"}
      [] c = "License" -> {"name"}
      [] c = "Server" -> {"url", "protocol", "protocolVersion"}
      [] c = "ServerVariable" -> {"default"}
      [] c = "Discriminator" -> {"propertyName"}
      [] c = "Reference" -> {"$ref"}
      [] c = "CorrelationID" -> {"location"}
      [] c \in {"MessageBase", "Message"} -> {"payload"}
      [] c = "ExternalDocumentation" -> {"url"}
      [] OTHER -> {}
MinimalAsyncAPI ==
    M([asyncapi |-> S("2.0.0"), info |-> M([title |-> S("X"), version |-> S("1.0")]),
       channels |-> M(<<>>)])
C6_MandatoryFields ==
    Parsed =>
        /\ \A key \in Keys(Full(cls)) :
              raw = Drop(Full(cls), key) => (~ IsOk(parsed) <=> key \in Mandatory(cls))
        /\ (cls = "AsyncAPI" /\ raw = MinimalAsyncAPI) => IsOk(parsed)

\* C10 -- Parameter-or-Reference resolution: a parameters entry {"$ref": s}
\* of a ChannelItem parses to a Reference whose ref is s and is written back
\* as {"$ref": s}; an entry with Parameter fields and no $ref parses to a
\* Parameter.
EntryDoc(e) == M([parameters |-> M([id |-> e])])
C10_ParameterOrReference ==
    (Parsed /\ cls = "ChannelItem") =>
        LET entry == Get(Attr(parsed.val, "parameters"), "id")
        IN  /\ \A s \in Pointers :
                  raw = EntryDoc(Ref(s)) =>
                      /\ IsOk(parsed)
                      /\ ClassOf(entry) = "Reference"
                      /\ Attr(entry, "ref") = S(s)
                      /\ Serialized => out = raw
            /\ raw = EntryDoc(DocParameter) =>
                  /\ IsOk(parsed)
                  /\ ClassOf(entry) = "Parameter"

\* C9 (as stated) -- Tag and Components are open records: a document with
\* arbitrary fields parses, and every unknown field is kept in the parsed
\* record and written back unchanged by serialize.
C9_OpenRecordsPreserve ==
    (Parsed /\ cls \in {"Tag", "Components"}) =>
        /\ IsOk(parsed)
        /\ \A key \in Keys(raw) : key \in DOMAIN parsed.val[2]
        /\ Serialized => out = raw

\* C9 (amended) -- a Tag or Components document with arbitrary fields
\* parses, but its fields are discarded: the parsed record holds none and
\* serialize writes the empty mapping.
C9_OpenRecordsDiscard ==
    (Parsed /\ cls \in {"Tag", "Components"}) =>
        /\ IsOk(parsed)
        /\ parsed.val = Obj(cls, <<>>)
        /\ Serialized => out = M(<<>>)

C9_Witness ==
    /\ Serialized
    /\ cls = "Components"
    /\ raw = DocComponents
    /\ out = M(<<>>)

\* C4 -- Alias correctness: {"$ref": s} parses to a Reference whose ref is
\* s and is written back under "$ref", never "ref"; the field not_ of a
\* Schema is read from and written to the key "not", never "not_".
C4_AliasCorrectness ==
    /\ (Parsed /\ cls = "Reference") =>
          \A s \in Pointers :
              raw = Ref(s) =>
                  /\ IsOk(parsed)
                  /\ Attr(parsed.val, "ref") = S(s)
                  /\ Serialized => (Keys(out) = {"$ref"} /\ Get(out, "$ref") = S(s))
    /\ (Parsed /\ cls = "Schema" /\ IsOk(parsed)) =>
          /\ (Has(raw, "not") /\ Kind(Get(raw, "not")) = "map") =>
                /\ Kind(Attr(parsed.val, "not_")) = "model"
                /\ Serialized =>
                      (Has(out, "not") /\ ~ Has(out, "not_")
                          /\ Get(out, "not") = Get(raw, "not"))
          /\ ~ Has(raw, "not") =>
                /\ Attr(parsed.val, "not_") = None
                /\ Serialized => (~ Has(out, "not") /\ ~ Has(out, "not_"))

C4_Witness ==
    /\ Serialized
    /\ cls = "Reference"
    /\ raw = Ref("#/components/schemas/Foo")
    /\ Attr(parsed.val, "ref") = S("#/components/schemas/Foo")
    /\ Keys(out) = {"$ref"}

\* C5 -- Enum closure: a Server's protocol is accepted exactly when it is
\* one of the thirteen literal strings; any other string fails with an
\* error that names the protocol field; serialize writes the literal.
Literals ==
    {"amqp", "amqps", "http", "https", "jms", "kafka", "kafka-secure", "mqtt",
     "secure-mqtt", "stomp", "stomps", "ws", "wss"}
C5_EnumClosure ==
    (Parsed /\ cls = "Server" /\ Has(raw, "protocol")
        /\ Kind(Get(raw, "protocol")) = "str") =>
        LET s == Get(raw, "protocol")[2]
        IN  /\ ErrAt(<<"protocol">>) <=> s \notin Literals
            /\ raw = Put(DocServer, "protocol", S(s)) => (IsOk(parsed) <=> s \in Literals)
            /\ Serialized => Get(out, "protocol") = S(s)

C5_Witness ==
    /\ Serialized
    /\ cls = "Server"
    /\ raw = Put(DocServer, "protocol", S("kafka-secure"))
    /\ Attr(parsed.val, "protocol") = E("kafka_secure")
    /\ Get(out, "protocol") = S("kafka-secure")

\* The sub-schemas one level below a parsed Schema p, each paired with the
\* raw value it was parsed from in the raw Schema r.
SubSchemas(p, r) ==
    UNION {IF Has(r, a) /\ Kind(Get(r, a)) = "list"
           THEN {<<Attr(p, a)[2][i], Get(r, a)[2][i]>> : i \in DOMAIN Get(r, a)[2]}
           ELSE {} : a \in {"allOf", "oneOf", "anyOf"}}
    \cup (IF Has(r, "not") /\ Kind(Get(r, "not")) # "null"
          THEN {<<Attr(p, "not_"), Get(r, "not")>>} ELSE {})
    \cup (IF Has(r, "items") /\ Kind(Get(r, "items")) # "null"
          THEN {<<Attr(p, "items"), Get(r, "items")>>} ELSE {})
    \cup (IF Has(r, "properties") /\ Kind(Get(r, "properties")) = "map"
          THEN {<<Get(Attr(p, "properties"), key), Get(Get(r, "properties"), key)>> :
                   key \in Keys(Get(r, "properties"))}
          ELSE {})

\* the recursive fields, by external key and by field name
Recursive ==
    {<<"allOf", "allOf">>, <<"oneOf", "oneOf">>, <<"anyOf", "anyOf">>,
     <<"not", "not_">>, <<"items", "items">>, <<"properties", "properties">>}

\* a typed schema record all of whose sub-schemas, at every depth, are typed
\* schema records
RECURSIVE DeepTyped(_)
DeepTyped(x) ==
    /\ Kind(x) = "model"
    /\ \A n \in {"allOf", "oneOf", "anyOf"} :
          Kind(Attr(x, n)) = "list" =>
              \A i \in DOMAIN Attr(x, n)[2] : DeepTyped(Attr(x, n)[2][i])
    /\ \A n \in {"not_", "items"} :
          Kind(Attr(x, n)) # "null" => DeepTyped(Attr(x, n))
    /\ Kind(Attr(x, "properties")) = "map" =>
          \A key \in Keys(Attr(x, "properties")) : DeepTyped(Get(Attr(x, "properties"), key))

\* C3 (as stated) -- Recursive schema nesting: parsing a Schema narrows the
\* recursive fields to typed schema records at every nesting level, so in
\* the parse of {properties: {tags: {type: array, items: {type: string}}}}
\* properties["tags"].items is a typed record whose type is "string".
C3_RecursiveNesting ==
    (Parsed /\ cls = "Schema" /\ IsOk(parsed)) =>
        /\ DeepTyped(parsed.val)
        /\ raw = M([properties |-> DocProperties]) =>
              LET items == Attr(Get(Attr(parsed.val, "properties"), "tags"), "items")
              IN  Kind(items) = "model" /\ Attr(items, "type") = S("string")

\* C3 (amended) -- parsing a Schema narrows the recursive fields to typed
\* SchemaBase records one level down; the recursive fields of those records
\* keep the raw value untouched, so properties["tags"].items is the raw
\* mapping {type: "string"}.
C3_OneLevelNesting ==
    (Parsed /\ cls = "Schema" /\ IsOk(parsed)) =>
        /\ \A pr \in SubSchemas(parsed.val, raw) :
              /\ Kind(pr[1]) = "model"
              /\ ClassOf(pr[1]) = "SchemaBase"
              /\ \A a \in Recursive :
                    (Has(pr[2], a[1]) /\ Kind(Get(pr[2], a[1])) # "null") =>
                        Attr(pr[1], a[2]) = Get(pr[2], a[1])
        /\ raw = M([properties |-> DocProperties]) =>
              LET items == Attr(Get(Attr(parsed.val, "properties"), "tags"), "items")
              IN  items = M([type |-> S("string")])

C3_Witness ==
    /\ Parsed
    /\ cls = "Schema"
    /\ raw = M([properties |-> DocProperties])
    /\ IsOk(parsed)
    /\ Kind(Attr(Get(Attr(parsed.val, "properties"), "tags"), "items")) = "map"

\* The fields of cls declared with a scalar type whose raw value is a scalar
ScalarTypes == {"str", "int", "float", "bool"}
ScalarFields ==
    {i \in DOMAIN Fields(cls) :
        /\ Fields(cls)[i].type.t \in ScalarTypes
        /\ Has(raw, Fields(cls)[i].alias)
        /\ Kind(Get(raw, Fields(cls)[i].alias)) \in ScalarTypes}

\* a raw scalar of kind k has the declared type t (an integer is a number)
SameType(t, k) == t = k \/ (t = "float" /\ k = "int")

\* equality of scalars, an integer being equal to the same whole number
SameScalar(x, y) ==
    \/ x = y
    \/ Kind(x) = "int" /\ Kind(y) = "float" /\ y[2] = 10 * x[2]
    \/ Kind(x) = "float" /\ Kind(y) = "int" /\ x[2] = 10 * y[2]

\* C7 (as stated) -- No silent coercion: a raw value of another scalar type
\* than the field declares fails the parse at that field, and a parsed
\* scalar field always equals the raw value supplied.
C7_NoSilentCoercion ==
    Parsed =>
        \A i \in ScalarFields :
            LET f == Fields(cls)[i]
                x == Get(raw, f.alias)
            IN  /\ ~ SameType(f.type.t, Kind(x)) => ErrAt(<<f.alias>>)
                /\ IsOk(parsed) => SameScalar(Attr(parsed.val, f.name), x)

\* whether Python converts the scalar x to the declared type t
Converts(t, x) ==
    CASE SameType(t, Kind(x)) -> TRUE
      [] t = "str" -> TRUE
      [] t = "int" /\ Kind(x) = "str" -> \E n \in IntLiterals : IntStr(n) = x[2]
      [] t = "int" -> TRUE
      [] t = "float" /\ Kind(x) = "str" ->
            \E n \in FloatLiterals :
                x[2] = FloatStr(n) \/ (n % 10 = 0 /\ x[2] = IntStr(n \div 10))
      [] t = "float" -> TRUE
      [] t = "bool" /\ Kind(x) = "str" ->
            x[2] \in {"1", "on", "t", "true", "y", "yes", "True",
                      "0", "off", "f", "false", "n", "no", "False"}
      [] t = "bool" /\ Kind(x) = "int" -> x[2] \in {0, 1}
      [] t = "bool" /\ Kind(x) = "float" -> x[2] \in {0, 10}

\* the value x is converted to
Converted(t, x) ==
    CASE t = Kind(x) -> x
      [] t = "str" /\ Kind(x) = "int" -> S(IntStr(x[2]))
      [] t = "str" /\ Kind(x) = "float" -> S(FloatStr(x[2]))
      [] t = "str" /\ Kind(x) = "bool" -> S(IF x[2] THEN "True" ELSE "False")
      [] t = "int" /\ Kind(x) = "bool" -> I(IF x[2] THEN 1 ELSE 0)
      [] t = "int" /\ Kind(x) = "float" -> I(IF x[2] < 0 THEN -((-x[2]) \div 10) ELSE x[2] \div 10)
      [] t = "int" /\ Kind(x) = "str" -> I(CHOOSE n \in IntLiterals : IntStr(n) = x[2])
      [] t = "float" /\ Kind(x) = "int" -> F(10 * x[2])
      [] t = "float" /\ Kind(x) = "bool" -> F(IF x[2] THEN 10 ELSE 0)
      [] t = "float" /\ Kind(x) = "str" ->
            F(CHOOSE n \in FloatLiterals : x[2] = FloatStr(n) \/ (n % 10 = 0 /\ x[2] = IntStr(n \div 10)))
      [] t = "bool" /\ Kind(x) = "str" -> B(x[2] \in {"1", "on", "t", "true", "y", "yes", "True"})
      [] t = "bool" /\ Kind(x) = "int" -> B(x[2] = 1)
      [] t = "bool" /\ Kind(x) = "float" -> B(x[2] = 10)

\* C7 (amended) -- Scalar coercion: a raw scalar of another type than the
\* field declares is converted to the declared type when Python's
\* conversion accepts it, and fails the parse at that field only when it
\* does not; a raw value of the declared type is kept as it is.
C7_ScalarCoercion ==
    Parsed =>
        \A i \in ScalarFields :
            LET f == Fields(cls)[i]
                x == Get(raw, f.alias)
            IN  /\ ErrAt(<<f.alias>>) <=> ~ Converts(f.type.t, x)
                /\ IsOk(parsed) => Attr(parsed.val, f.name) = Converted(f.type.t, x)

C7_Witness ==
    /\ Parsed
    /\ cls = "Info"
    /\ raw = Put(DocInfo, "title", I(1))
    /\ IsOk(parsed)
    /\ Attr(parsed.val, "title") = S("1")

\* A document of the declared data model: a value that has the declared
\* type as it stands -- every key a declared one, every value of the
\* declared kind, every mandatory field present.
RECURSIVE Conforms(_, _)
ConformsModel(c, v) ==
    /\ Kind(v) = "map"
    /\ Keys(v) \subseteq {Fields(c)[i].alias : i \in DOMAIN Fields(c)}
    /\ \A a \in Mandatory(c) : Has(v, a) /\ Kind(Get(v, a)) # "null"
    /\ \A i \in DOMAIN Fields(c) :
          LET f == Fields(c)[i]
          IN  (Has(v, f.alias) /\ Kind(Get(v, f.alias)) # "null") =>
                  /\ Conforms(f.type, Get(v, f.alias))
                  /\ \A kw \in f.extra : Get(v, f.alias)[2] >= kw[2]
Conforms(ty, v) ==
    CASE ty.t = "any" -> TRUE
      [] ty.t \in ScalarTypes -> SameType(ty.t, Kind(v))
      [] ty.t = "AnyUrl" -> Kind(v) = "str" /\ v[2] \in Urls
      [] ty.t = "EmailStr" -> Kind(v) = "str" /\ v[2] \in Emails
      [] ty.t = "dict" -> Kind(v) = "map"
      [] ty.t = "enum" -> Kind(v) = "str" /\ v[2] \in Literals
      [] ty.t = "model" -> ConformsModel(ty.of, v)
      [] ty.t = "List" ->
            Kind(v) = "list" /\ \A i \in DOMAIN v[2] : Conforms(ty.of, v[2][i])
      [] ty.t = "Dict" ->
            Kind(v) = "map" /\ \A key \in Keys(v) : Conforms(ty.of, Get(v, key))
      [] ty.t = "Union" -> Conforms(ty.of[1], v) \/ Conforms(ty.of[2], v)

\* a document up to the omission of absent (null) fields, whole numbers
\* written as numbers
RECURSIVE Canon(_)
Canon(x) ==
    CASE Kind(x) = "map" ->
            M([key \in {a \in Keys(x) : Kind(Get(x, a)) # "null"} |-> Canon(Get(x, key))])
      [] Kind(x) = "list" -> L([i \in DOMAIN x[2] |-> Canon(x[2][i])])
      [] Kind(x) = "int" -> F(10 * x[2])
      [] OTHER -> x

\* C1 -- Round-trip: for every valid document d, serialize(parse(d)) equals
\* d up to the omission of absent optional fields; no key with a value is
\* lost or renamed and no null is written for an absent field.
C1_RoundTrip ==
    (Parsed /\ Conforms(TModel(cls), raw)) =>
        /\ IsOk(parsed)
        /\ Serialized => Canon(out) = Canon(raw)

\* the value e, read as class c, has a declared key whose value is invalid
PresentInvalid(c, e) ==
    /\ Kind(e) = "map"
    /\ \E i \in DOMAIN Fields(c) :
          Has(e, Fields(c)[i].alias) /\ ~ IsOk(ValidateField(Fields(c)[i], e))

\* every entity of a parsed tree satisfies what its class declares: its
\* mandatory fields are set and its numeric bounds hold
RECURSIVE TreeOk(_)
TreeOk(x) ==
    CASE Kind(x) = "model" ->
            \A i \in DOMAIN Fields(ClassOf(x)) :
                LET f == Fields(ClassOf(x))[i]
                    y == Attr(x, f.name)
                IN  /\ f.alias \in Mandatory(ClassOf(x)) => Kind(y) # "null"
                    /\ Kind(y) \in {"int", "float"} => \A kw \in f.extra : y[2] >= kw[2]
                    /\ TreeOk(y)
      [] Kind(x) = "list" -> \A i \in DOMAIN x[2] : TreeOk(x[2][i])
      [] Kind(x) = "map" -> \A key \in Keys(x) : TreeOk(Get(x, key))
      [] OTHER -> TRUE

\* C8 -- All-or-nothing parse: parse yields a tree whose every entity
\* satisfies its declared constraints, or a failure and no tree; a
\* violation inside a nested entity, also one inside a field typed as
\* Schema-or-Reference, CorrelationID-or-Reference or Parameter-or-Reference,
\* fails the whole parse instead of being dropped or absorbed by the other
\* alternative.
C8_AllOrNothing ==
    Parsed =>
        /\ IsOk(parsed) => TreeOk(parsed.val)
        /\ ~ IsOk(parsed) => parsed.val = None
        /\ \A e \in Entries :
              /\ (raw \in {Put(DocTrait, "headers", e), AroundMessage(Put(DocTrait, "headers", e))}
                    /\ cls \in {"Message", "AsyncAPI"}
                    /\ (PresentInvalid("Schema", e) \/ PresentInvalid("Reference", e)))
                 => ~ IsOk(parsed)
              /\ (raw \in {Put(DocTrait, "correlationId", e),
                           AroundMessage(Put(DocTrait, "correlationId", e))}
                    /\ cls \in {"Message", "AsyncAPI"}
                    /\ (PresentInvalid("CorrelationID", e) \/ PresentInvalid("Reference", e)))
                 => ~ IsOk(parsed)
              /\ (raw \in {EntryDoc(e), AroundEntry(e)}
                    /\ cls \in {"ChannelItem", "AsyncAPI"}
                    /\ (PresentInvalid("Parameter", e) \/ PresentInvalid("Reference", e)))
                 => ~ IsOk(parsed)

====
